---- MODULE Spec2Model ----
(***************************************************************************)
(* Model of projects/memory/evaluation.py: the unigram score functions,    *)
(* evaluate() and the evaluate_wrapper() batch loop.                       *)
(*                                                                         *)
(* Strings are sequences of one-character strings, so that substring       *)
(* tests, lower-casing, whitespace splitting, str.split(".json") and       *)
(* str.replace are computed the way Python computes them.                  *)
(* Python floats are modelled by exact rationals [k |-> "num", n, d];      *)
(* nan and None are values of their own.                                   *)
(***************************************************************************)
EXTENDS Integers, Sequences, FiniteSets, TLC

(***************************************************************************)
(* Strings                                                                 *)
(***************************************************************************)
UpperChars == <<"A","B","C","D","E","F","G","H","I","J","K","L","M",
                "N","O","P","Q","R","S","T","U","V","W","X","Y","Z">>
LowerChars == <<"a","b","c","d","e","f","g","h","i","j","k","l","m",
                "n","o","p","q","r","s","t","u","v","w","x","y","z">>
DigitChars == <<"0","1","2","3","4","5","6","7","8","9">>

\* str.lower() on one character
LowerChar(c) ==
    IF \E i \in 1..Len(UpperChars) : UpperChars[i] = c
    THEN LowerChars[CHOOSE i \in 1..Len(UpperChars) : UpperChars[i] = c]
    ELSE c

\* str.lower()
Lower(s) == [i \in 1..Len(s) |-> LowerChar(s[i])]

\* the characters str.split() treats as separators
IsSpace(c) == c \in {" ", "\t", "\n"}

\* a in s  (Python substring test; the empty string is in every string)
IsSubstr(a, s) ==
    \E i \in 0..(Len(s) - Len(a)) : SubSeq(s, i + 1, i + Len(a)) = a

\* str.split(): the maximal runs of non-whitespace characters, in order
RECURSIVE SplitFrom(_, _, _, _)
SplitFrom(s, i, cur, acc) ==
    IF i > Len(s)
    THEN IF cur = <<>> THEN acc ELSE Append(acc, cur)
    ELSE IF IsSpace(s[i])
         THEN SplitFrom(s, i + 1, <<>>, IF cur = <<>> THEN acc ELSE Append(acc, cur))
         ELSE SplitFrom(s, i + 1, Append(cur, s[i]), acc)

Split(s) == SplitFrom(s, 1, <<>>, <<>>)

\* index of the first occurrence of sep in s at or after position i, 0 if none
RECURSIVE FindFrom(_, _, _)
FindFrom(s, sep, i) ==
    IF i + Len(sep) - 1 > Len(s) THEN 0
    ELSE IF SubSeq(s, i, i + Len(sep) - 1) = sep THEN i
    ELSE FindFrom(s, sep, i + 1)

\* s.split(sep)[0]: what precedes the first occurrence of sep (all of s if none)
SplitFirst(s, sep) ==
    LET p == FindFrom(s, sep, 1)
    IN  IF p = 0 THEN s ELSE SubSeq(s, 1, p - 1)

\* s.replace(old, new): every non-overlapping occurrence, left to right
RECURSIVE ReplaceFrom(_, _, _, _)
ReplaceFrom(s, old, new, i) ==
    IF i > Len(s) THEN <<>>
    ELSE IF i + Len(old) - 1 <= Len(s) /\ SubSeq(s, i, i + Len(old) - 1) = old
         THEN new \o ReplaceFrom(s, old, new, i + Len(old))
         ELSE <<s[i]>> \o ReplaceFrom(s, old, new, i + 1)

Replace(s, old, new) == ReplaceFrom(s, old, new, 1)

EndsWith(s, suf) ==
    Len(s) >= Len(suf) /\ SubSeq(s, Len(s) - Len(suf) + 1, Len(s)) = suf

(***************************************************************************)
(* Numbers: Python floats as exact rationals, plus nan and None            *)
(***************************************************************************)
Abs(x) == IF x < 0 THEN -x ELSE x

RECURSIVE GCD(_, _)
GCD(a, b) == IF b = 0 THEN a ELSE GCD(b, a % b)

\* the number n/d (d > 0), in lowest terms
Num(n, d) ==
    LET g == GCD(Abs(n), d)
    IN  [k |-> "num", n |-> n \div g, d |-> d \div g]

NaN  == [k |-> "nan",  n |-> 0, d |-> 0]
None == [k |-> "none", n |-> 0, d |-> 0]

Add(x, y) == Num(x.n * y.d + y.n * x.d, x.d * y.d)
Sub(x, y) == Num(x.n * y.d - y.n * x.d, x.d * y.d)
Mul(x, y) == Num(x.n * y.n, x.d * y.d)
IsZero(x) == x.k = "num" /\ x.n = 0
Leq(x, y) == x.n * y.d <= y.n * x.d

Zero == Num(0, 1)
One  == Num(1, 1)

\* a returned value, or an exception that propagates to the caller
Ok(v, it) == [status |-> "ok", value |-> v, err |-> "", iterations |-> it]
Raise(e)  == [status |-> "raise", value |-> None, err |-> e, iterations |-> 0]

RECURSIVE SumSeq(_)
SumSeq(xs) == IF xs = <<>> THEN Zero ELSE Add(xs[1], SumSeq(Tail(xs)))

\* float(np.mean(xs)): nan (a warning, not an exception) for the empty list,
\* TypeError when an element is None, nan when an element is nan
Mean(xs) ==
    IF xs = <<>> THEN Ok(NaN, 0)
    ELSE IF \E i \in 1..Len(xs) : xs[i].k = "none" THEN Raise("TypeError")
    ELSE IF \E i \in 1..Len(xs) : xs[i].k = "nan" THEN Ok(NaN, 0)
    ELSE Ok(Mul(SumSeq(xs), Num(1, Len(xs))), 0)

(***************************************************************************)
(* Score functions                                                         *)
(***************************************************************************)
\* compute_our_rouge: 1 if the lower-cased reference is one of the tokens
ComputeOurRouge(reference, pred) ==
    LET ref   == Lower(reference)
        preds == [i \in 1..Len(Split(pred)) |-> Lower(Split(pred)[i])]
    IN  IF \E i \in 1..Len(preds) : preds[i] = ref
        THEN Ok(One, 0)
        ELSE Ok(Zero, 0)

\* the loop of compute_our_bleu: nom after the tokens from position i on
RECURSIVE BleuNom(_, _, _, _)
BleuNom(preds, ref, i, nom) ==
    IF i > Len(preds) THEN nom
    ELSE IF preds[i] = ref
         THEN BleuNom(preds, ref, i + 1, nom + 1)
         ELSE BleuNom(preds, ref, i + 1, nom + 0)

\* compute_our_bleu with denom taken from the reference's tokens
ComputeOurBleuRefDenom(reference, pred) ==
    LET ref   == Lower(reference)
        preds == [i \in 1..Len(Split(pred)) |-> Lower(Split(pred)[i])]
        denom == Len(Split(reference))
        nom   == BleuNom(preds, ref, 1, 0)
    IN  IF denom = 0 THEN Raise("ZeroDivisionError")
        ELSE Ok(Num(nom, denom), 0)

\* compute_our_bleu: nom / denom, ZeroDivisionError when pred has no token
ComputeOurBleu(reference, pred) ==
    LET ref   == Lower(reference)
        preds == [i \in 1..Len(Split(pred)) |-> Lower(Split(pred)[i])]
        denom == Len(preds)
        nom   == BleuNom(preds, ref, 1, 0)
    IN  IF denom = 0 THEN Raise("ZeroDivisionError")
        ELSE Ok(Num(nom, denom), 0)

(***************************************************************************)
(* evaluate                                                                *)
(***************************************************************************)
GLOBAL_ACCURACY == <<"g","l","o","b","a","l","_","a","c","c","u","r","a","c","y">>
BLEU   == <<"b","l","e","u">>
ROUGE  == <<"r","o","u","g","e">>
F1     == <<"f","1">>
NIHED  == <<"n","i","h","e","d">>
WHERE  == <<"w","h","e","r","e">>
QMARK  == <<"?">>
NOT_SURE == <<"n","o","t"," ","s","u","r","e">>

Min(a, b) == IF a <= b THEN a ELSE b

\* zip(correct_answers, predictions): as many pairs as the shorter list has
ZipLen(correct_answers, predictions) == Min(Len(correct_answers), Len(predictions))

\* CountTF with the else branch leaving F alone
RECURSIVE CountTFNoMiss(_, _, _, _, _)
CountTFNoMiss(correct_answers, predictions, i, T, F) ==
    IF i > ZipLen(correct_answers, predictions) THEN <<T, F>>
    ELSE IF IsSubstr(correct_answers[i], predictions[i])
         THEN CountTFNoMiss(correct_answers, predictions, i + 1, T + 1, F)
         ELSE CountTFNoMiss(correct_answers, predictions, i + 1, T, F)

\* the loop of the global_accuracy branch: <<T, F>> after the pairs from i on
RECURSIVE CountTF(_, _, _, _, _)
CountTF(correct_answers, predictions, i, T, F) ==
    IF i > ZipLen(correct_answers, predictions) THEN <<T, F>>
    ELSE IF IsSubstr(correct_answers[i], predictions[i])
         THEN CountTF(correct_answers, predictions, i + 1, T + 1, F)
         ELSE CountTF(correct_answers, predictions, i + 1, T, F + 1)

\* global_acc = T / (T + F)
GlobalAccuracy(predictions, correct_answers) ==
    LET tf == CountTF(correct_answers, predictions, 1, 0, 0)
    IN  IF tf[1] + tf[2] = 0 THEN Raise("ZeroDivisionError")
        ELSE Ok(Num(tf[1], tf[1] + tf[2]), ZipLen(correct_answers, predictions))

\* the loops that fill bleu_all: the list so far, or the exception of
\* compute_our_bleu that ends the loop
RECURSIVE BleuAll(_, _, _, _)
BleuAll(correct_answers, predictions, i, acc) ==
    IF i > ZipLen(correct_answers, predictions) THEN Ok(acc, i - 1)
    ELSE LET b == ComputeOurBleu(correct_answers[i], predictions[i])
         IN  IF b.status = "raise" THEN b
             ELSE BleuAll(correct_answers, predictions, i + 1, Append(acc, b.value))

\* the loops that fill rouge_all
RECURSIVE RougeAll(_, _, _, _)
RougeAll(correct_answers, predictions, i, acc) ==
    IF i > ZipLen(correct_answers, predictions) THEN Ok(acc, i - 1)
    ELSE LET r == ComputeOurRouge(correct_answers[i], predictions[i])
         IN  RougeAll(correct_answers, predictions, i + 1, Append(acc, r.value))

BleuBranch(predictions, correct_answers) ==
    LET all == BleuAll(correct_answers, predictions, 1, <<>>)
    IN  IF all.status = "raise" THEN all
        ELSE Ok(Mean(all.value).value, all.iterations)

RougeBranch(predictions, correct_answers) ==
    LET all == RougeAll(correct_answers, predictions, 1, <<>>)
    IN  Ok(Mean(all.value).value, all.iterations)

\* f1 = 2 * (bleu_avg * rouge_avg) / (bleu_avg + rouge_avg) on Python floats:
\* nan when an average is nan, ZeroDivisionError when the sum is 0.0
F1Formula(bleu_avg, rouge_avg) ==
    IF bleu_avg.k = "nan" \/ rouge_avg.k = "nan" THEN Ok(NaN, 0)
    ELSE LET s == Add(bleu_avg, rouge_avg)
             p == Mul(Num(2, 1), Mul(bleu_avg, rouge_avg))
         IN  IF IsZero(s) THEN Raise("ZeroDivisionError")
             ELSE Ok(Num(p.n * s.d, p.d * s.n), 0)

F1Branch(predictions, correct_answers) ==
    LET ball == BleuAll(correct_answers, predictions, 1, <<>>)
        rall == RougeAll(correct_answers, predictions, 1, <<>>)
    IN  IF ball.status = "raise" THEN ball
        ELSE LET f == F1Formula(Mean(ball.value).value, Mean(rall.value).value)
             IN  IF f.status = "raise" THEN f
                 ELSE Ok(f.value, ball.iterations)

\* prompt[-2] and prompt[-1], each a one-character string
PromptAt(prompt, back) == <<prompt[Len(prompt) + 1 - back]>>

\* the score of one example up to the "where" check
NihedAccumulated(answer, pred, prompt) ==
    LET s0 == Zero
        s1 == IF IsSubstr(answer, pred) THEN Add(s0, Num(33, 100)) ELSE s0
        s2 == IF IsSubstr(PromptAt(prompt, 2), pred) /\ IsSubstr(answer, pred)
              THEN Add(s1, Num(33, 100)) ELSE s1
        s3 == IF /\ IsSubstr(PromptAt(prompt, 2), pred)
                 /\ IsSubstr(PromptAt(prompt, 1), pred)
                 /\ IsSubstr(answer, pred)
              THEN Add(s2, Num(33, 100)) ELSE s2
        s4 == IF IsSubstr(WHERE, pred) THEN Sub(s3, Num(33, 100)) ELSE s3
    IN  s4

\* the final check with an else branch that keeps the accumulated score
NihedFinalKeep(score, pred) ==
    IF IsSubstr(QMARK, pred) \/ IsSubstr(NOT_SURE, pred)
    THEN Zero
    ELSE score

\* the final "?" / "not sure" check: both branches assign 0
NihedFinal(score, pred) ==
    IF IsSubstr(QMARK, pred) \/ IsSubstr(NOT_SURE, pred)
    THEN Zero
    ELSE Zero

\* one iteration's score; prompt[-2] raises IndexError on a prompt shorter than 2
NihedExample(answer, pred, prompt) ==
    IF Len(prompt) < 2 THEN Raise("IndexError")
    ELSE Ok(NihedFinal(NihedAccumulated(answer, pred, prompt), pred), 0)

\* the nihed loop with the return statement after the loop
RECURSIVE NihedLoopAll(_, _, _, _, _)
NihedLoopAll(correct_answers, predictions, prompt_text, i, scores) ==
    IF i > Len(correct_answers) THEN Ok(Mean(scores).value, i - 1)
    ELSE LET e == NihedExample(correct_answers[i], predictions[i], prompt_text[i])
         IN  IF e.status = "raise" THEN e
             ELSE NihedLoopAll(correct_answers, predictions, prompt_text, i + 1,
                               Append(scores, e.value))

\* the loop of the nihed branch: the return statement is inside the loop body,
\* so iteration i returns the mean of the scores so far; a loop that runs out
\* of triples falls off the end of evaluate, which returns None
RECURSIVE NihedLoop(_, _, _, _, _)
NihedLoop(correct_answers, predictions, prompt_text, i, scores) ==
    IF i > Len(correct_answers) THEN Ok(None, i - 1)
    ELSE LET e == NihedExample(correct_answers[i], predictions[i], prompt_text[i])
         IN  IF e.status = "raise" THEN e
             ELSE Ok(Mean(Append(scores, e.value)).value, i)

NihedBranch(predictions, correct_answers, prompt_text) ==
    IF ~(Len(correct_answers) = Len(predictions) /\ Len(predictions) = Len(prompt_text))
    THEN Raise("AssertionError")
    ELSE NihedLoop(correct_answers, predictions, prompt_text, 1, <<>>)

\* evaluate(predictions, correct_answers, metric, prompt_text)
Evaluate(predictions, correct_answers, metric, prompt_text) ==
    CASE Lower(metric) = GLOBAL_ACCURACY -> GlobalAccuracy(predictions, correct_answers)
      [] Lower(metric) = BLEU  -> BleuBranch(predictions, correct_answers)
      [] Lower(metric) = ROUGE -> RougeBranch(predictions, correct_answers)
      [] Lower(metric) = F1    -> F1Branch(predictions, correct_answers)
      [] Lower(metric) = NIHED -> NihedBranch(predictions, correct_answers, prompt_text)
      [] OTHER -> Ok(None, 0)

(***************************************************************************)
(* State                                                                   *)
(***************************************************************************)
VARIABLES
    eSamples,       \* the examples of one split handed to evaluate()
    eCall,          \* the last call of a score function and what it gave
    results_path,   \* argument of evaluate_wrapper
    metrics,        \* argument of evaluate_wrapper
    fs,             \* the file system: <<directory, file name>> -> content
    invocation,     \* 1 for the first run of evaluate_wrapper, 2 for the re-run
    pc,             \* position in evaluate_wrapper
    paths,          \* the sorted file names found by glob
    save_path_dir,  \* the output directory
    mi,             \* index of the current metric in metrics
    fi,             \* index of the current path in paths
    item,           \* run identifier of the current file
    data,           \* content of the current file
    evaluation,     \* the report being built: key -> entry
    error,          \* the exception that ended the invocation, "" if none
    written,        \* per invocation and metric index, the report handed to write_json
    firstRun        \* what the first invocation globbed and left on disk

evars == <<eSamples, eCall>>
wvars == <<results_path, metrics, fs, invocation, pc, paths, save_path_dir,
           mi, fi, item, data, evaluation, error, written, firstRun>>
vars  == <<eSamples, eCall, results_path, metrics, fs, invocation, pc, paths,
           save_path_dir, mi, fi, item, data, evaluation, error, written, firstRun>>

(***************************************************************************)
(* Input domains                                                           *)
(***************************************************************************)
MaxExamples == 2

Preds   == { <<"a"," ","b">>, <<"A"," ","a">>, <<"a","b","?">>, <<" ">>,
             <<"w","h","e","r","e"," ","a">> }
Answers == { <<"a">>, <<"B">> }
Prompts == { <<"a","b">>, <<"b">> }

Samples == [prediction : Preds, correct_answer : Answers, prompt_text : Prompts]

SeqsUpTo(S, n) == UNION { [1..k -> S] : k \in 0..n }

UNKNOWN_METRIC == <<"a","c","c">>
EvalMetrics == { GLOBAL_ACCURACY, BLEU, ROUGE, <<"F","1">>, NIHED, UNKNOWN_METRIC }

\* lines 99-101: the three parallel lists of a split
Predictions(samples)    == [i \in 1..Len(samples) |-> samples[i].prediction]
CorrectAnswers(samples) == [i \in 1..Len(samples) |-> samples[i].correct_answer]
PromptText(samples)     == [i \in 1..Len(samples) |-> samples[i].prompt_text]

NoCall == [fn |-> "none", metric |-> <<>>, i |-> 0, result |-> Ok(None, 0)]

(***************************************************************************)
(* The score functions applied to drawn inputs                             *)
(***************************************************************************)
WrapperIdle ==
    /\ results_path = <<>> /\ metrics = <<>> /\ fs = <<>> /\ invocation = 0
    /\ pc = "idle" /\ paths = <<>> /\ save_path_dir = <<>> /\ mi = 0 /\ fi = 0
    /\ item = <<>> /\ data = <<>> /\ evaluation = <<>> /\ error = ""
    /\ written = <<>> /\ firstRun = <<>>

InitEval ==
    /\ eSamples \in SeqsUpTo(Samples, MaxExamples)
    /\ eCall = NoCall
    /\ WrapperIdle

CallEvaluate ==
    /\ eCall.fn = "none"
    /\ \E metric \in EvalMetrics :
         eCall' = [fn |-> "evaluate", metric |-> metric, i |-> 0,
                   result |-> Evaluate(Predictions(eSamples), CorrectAnswers(eSamples),
                                       Lower(metric), PromptText(eSamples))]
    /\ UNCHANGED <<eSamples, wvars>>

CallBleu ==
    /\ eCall.fn = "none"
    /\ \E i \in 1..Len(eSamples) :
         eCall' = [fn |-> "compute_our_bleu", metric |-> <<>>, i |-> i,
                   result |-> ComputeOurBleu(eSamples[i].correct_answer,
                                             eSamples[i].prediction)]
    /\ UNCHANGED <<eSamples, wvars>>

CallRouge ==
    /\ eCall.fn = "none"
    /\ \E i \in 1..Len(eSamples) :
         eCall' = [fn |-> "compute_our_rouge", metric |-> <<>>, i |-> i,
                   result |-> ComputeOurRouge(eSamples[i].correct_answer,
                                              eSamples[i].prediction)]
    /\ UNCHANGED <<eSamples, wvars>>

NextEval == CallEvaluate \/ CallBleu \/ CallRouge

SpecEval == InitEval /\ [][NextEval]_vars

(***************************************************************************)
(* Paths, dictionaries and rounding used by evaluate_wrapper               *)
(***************************************************************************)
SLASH     == <<"/">>
DOT_JSON  == <<".","j","s","o","n">>
RESULTS   == <<"r","e","s","u","l","t","s">>
EVALUATION == <<"e","v","a","l","u","a","t","i","o","n">>
VAL_MEAN  == <<"v","a","l","_","m","e","a","n">>
VAL_STD   == <<"v","a","l","_","s","t","d">>
TEST_MEAN == <<"t","e","s","t","_","m","e","a","n">>
TEST_STD  == <<"t","e","s","t","_","s","t","d">>

\* the key a split name is in a JSON object
SplitKey(split) == IF split = "val" THEN <<"v","a","l">> ELSE <<"t","e","s","t">>

\* os.path.join(a, b) for a relative b
Join(a, b) == a \o SLASH \o b

\* position of the last "/" of p, 0 if none
RECURSIVE LastSlash(_, _)
LastSlash(p, i) == IF i = 0 THEN 0 ELSE IF p[i] = "/" THEN i ELSE LastSlash(p, i - 1)

\* os.path.basename and os.path.dirname
Basename(p) == SubSeq(p, LastSlash(p, Len(p)) + 1, Len(p))
Dirname(p)  == SubSeq(p, 1, LastSlash(p, Len(p)) - 1)

\* line 94: os.path.basename(path).split(".json")[0]
ItemOf(path) == SplitFirst(Basename(path), DOT_JSON)

\* glob(os.path.join(results_path, "*.json")): the files directly under
\* results_path whose name ends in .json and does not start with a dot
Glob(files, dir) ==
    { p \in DOMAIN files :
        /\ LastSlash(p, Len(p)) > 0
        /\ Dirname(p) = dir
        /\ EndsWith(Basename(p), DOT_JSON)
        /\ Basename(p)[1] # "." }

\* a Python dict as the sequence of its <<key, value>> pairs in insertion order
DictHas(d, key) == \E i \in 1..Len(d) : d[i][1] = key
DictGet(d, key) == d[CHOOSE i \in 1..Len(d) : d[i][1] = key][2]
DictSet(d, key, v) ==
    IF DictHas(d, key)
    THEN [i \in 1..Len(d) |-> IF d[i][1] = key THEN <<key, v>> ELSE d[i]]
    ELSE Append(d, <<key, v>>)

\* entries of the report: a RunResult (the splits it has and their scores)
\* or a summary scalar
RunResult(has, val, test) == [t |-> "run", has |-> has, val |-> val, test |-> test]
Scalar(v)                 == [t |-> "num", has |-> {}, val |-> v, test |-> None]
EmptyRun == RunResult({}, None, None)

RunSet(r, split, v) ==
    IF split = "val" THEN RunResult(r.has \cup {"val"}, v, r.test)
    ELSE RunResult(r.has \cup {"test"}, r.val, v)

\* round(x, 4): the nearest multiple of 1/10000, ties to even; nan stays nan;
\* the root of a variance that has no rational root stays a symbolic term
IsSquare(n) == \E r \in 0..n : r * r = n
Root(n)     == CHOOSE r \in 0..n : r * r = n

Round4(x) ==
    CASE x.k = "num" ->
            LET f == (x.n * 10000) \div x.d
                r == (x.n * 10000) % x.d
                up == 2 * r > x.d \/ (2 * r = x.d /\ f % 2 = 1)
            IN  Num(IF up THEN f + 1 ELSE f, 10000)
      [] x.k = "sqrt" -> [k |-> "round4sqrt", n |-> x.n, d |-> x.d]
      [] OTHER -> x

\* float(np.std(xs)): the root of the mean squared deviation from the mean
Std(xs) ==
    LET m == Mean(xs)
    IN  IF m.status = "raise" \/ m.value.k # "num" THEN m
        ELSE LET dev == [i \in 1..Len(xs) |-> Mul(Sub(xs[i], m.value), Sub(xs[i], m.value))]
                 var == Mean(dev).value
             IN  IF IsSquare(var.n) /\ IsSquare(var.d)
                 THEN Ok(Num(Root(var.n), Root(var.d)), 0)
                 ELSE Ok([k |-> "sqrt", n |-> var.n, d |-> var.d], 0)

(***************************************************************************)
(* run_prompts helpers (not part of evaluation.py)                         *)
(***************************************************************************)
AsciiOrder == <<"\t", "\n", " ", ".", "/">> \o DigitChars \o <<"?">>
              \o UpperChars \o <<"_">> \o LowerChars
CharOrd(c) == CHOOSE i \in 1..Len(AsciiOrder) : AsciiOrder[i] = c
IsDigit(c) == \E i \in 1..Len(DigitChars) : DigitChars[i] = c
DigitVal(c) == (CHOOSE i \in 1..Len(DigitChars) : DigitChars[i] = c) - 1

\* natural_keys(text): text cut into alternating non-digit and digit runs,
\* the digit runs read as integers
RECURSIVE NaturalKeysFrom(_, _, _, _, _)
NaturalKeysFrom(s, i, txt, num, innum) ==
    IF i > Len(s)
    THEN IF innum THEN <<[isnum |-> TRUE, num |-> num, txt |-> <<>>]>>
                  ELSE <<[isnum |-> FALSE, num |-> 0, txt |-> txt]>>
    ELSE IF IsDigit(s[i])
         THEN IF innum
              THEN NaturalKeysFrom(s, i + 1, <<>>, num * 10 + DigitVal(s[i]), TRUE)
              ELSE <<[isnum |-> FALSE, num |-> 0, txt |-> txt]>>
                   \o NaturalKeysFrom(s, i + 1, <<>>, DigitVal(s[i]), TRUE)
         ELSE IF innum
              THEN <<[isnum |-> TRUE, num |-> num, txt |-> <<>>]>>
                   \o NaturalKeysFrom(s, i + 1, <<s[i]>>, 0, FALSE)
              ELSE NaturalKeysFrom(s, i + 1, Append(txt, s[i]), 0, FALSE)

natural_keys(text) == NaturalKeysFrom(text, 1, <<>>, 0, FALSE)

RECURSIVE StrLess(_, _)
StrLess(a, b) ==
    IF b = <<>> THEN FALSE
    ELSE IF a = <<>> THEN TRUE
    ELSE IF a[1] # b[1] THEN CharOrd(a[1]) < CharOrd(b[1])
    ELSE StrLess(Tail(a), Tail(b))

RECURSIVE KeyLess(_, _)
KeyLess(a, b) ==
    IF b = <<>> THEN FALSE
    ELSE IF a = <<>> THEN TRUE
    ELSE IF a[1] = b[1] THEN KeyLess(Tail(a), Tail(b))
    ELSE IF a[1].isnum THEN a[1].num < b[1].num
    ELSE StrLess(a[1].txt, b[1].txt)

\* paths.sort(key=natural_keys)
SortedPaths(S) ==
    CHOOSE s \in [1..Cardinality(S) -> S] :
        /\ \A p \in S : \E i \in 1..Cardinality(S) : s[i] = p
        /\ \A i \in 1..(Cardinality(S) - 1) :
              ~KeyLess(natural_keys(s[i + 1]), natural_keys(s[i]))

\* read_json(path)
read_json(files, path) == files[path]

\* write_json(content, path)
write_json(files, content, path) ==
    [p \in DOMAIN files \cup {path} |-> IF p = path THEN content ELSE files[p]]

(***************************************************************************)
(* evaluate_wrapper                                                        *)
(***************************************************************************)
\* data[split] and the three list comprehensions of lines 99-101
ExtractSplit(d, split) ==
    IF d.kind = "results"
    THEN IF split \notin d.has THEN Raise("KeyError")
         ELSE LET samples == IF split = "val" THEN d.val ELSE d.test
              IN  IF \E i \in 1..Len(samples) :
                        {"prediction", "correct_answer", "prompt_text"} \ samples[i].has # {}
                  THEN Raise("KeyError")
                  ELSE Ok(samples, 0)
    ELSE IF ~DictHas(d.entries, SplitKey(split)) THEN Raise("KeyError")
         ELSE LET e == DictGet(d.entries, SplitKey(split))
              IN  IF e.t = "run" /\ e.has = {} THEN Ok(<<>>, 0)
                  ELSE Raise("TypeError")

\* lines 103-131: the if/elif chain; no branch, and no assignment, for a
\* metric that is none of the five names
IsKnownMetric(metric) ==
    Lower(metric) \in {GLOBAL_ACCURACY, BLEU, ROUGE, F1, NIHED}

\* lines 107-131: only the global_accuracy branch rounds what evaluate returned
Rounded(r, metric) ==
    IF r.status = "raise" THEN r
    ELSE IF Lower(metric) = GLOBAL_ACCURACY THEN Ok(Round4(r.value), 0)
    ELSE r

Dispatch(samples, metric) ==
    Rounded(Evaluate(Predictions(samples), CorrectAnswers(samples),
                     Lower(metric), PromptText(samples)), metric)

\* evaluation[item][split] = score, unless evaluate raised (r is its outcome)
Assign(st, it, split, r) ==
    IF r.status = "raise" THEN [evaluation |-> st.evaluation, error |-> r.err]
    ELSE [evaluation |-> DictSet(st.evaluation, it,
                                 RunSet(DictGet(st.evaluation, it), split, r.value)),
          error |-> ""]

\* lines 103-131 for one split whose lists were extracted (x is the outcome of
\* the extraction)
ScoreExtracted(st, it, x, metric, split) ==
    IF x.status = "raise" THEN [evaluation |-> st.evaluation, error |-> x.err]
    ELSE IF ~IsKnownMetric(metric) THEN st
    ELSE Assign(st, it, split, Dispatch(x.value, metric))

\* lines 99-131: the body of the loop over splits for one split; st is the
\* report so far and the exception raised so far, if any
ScoreSplit(st, it, d, metric, split) ==
    IF st.error # "" THEN st
    ELSE ScoreExtracted(st, it, ExtractSplit(d, split), metric, split)

\* lines 94-131: the body of the loop over paths, for split in ["val", "test"]
ScoreFile(ev, files, path, metric) ==
    ScoreSplit(
        ScoreSplit([evaluation |-> DictSet(ev, ItemOf(path), EmptyRun), error |-> ""],
                   ItemOf(path), read_json(files, path), metric, "val"),
        ItemOf(path), read_json(files, path), metric, "test")

\* the column of a split that skips the runs that lack it
SplitColumnSkipMissing(ev, split) ==
    LET with == SelectSeq(ev, LAMBDA e : e[2].t = "run" /\ split \in e[2].has)
    IN  Ok([i \in 1..Len(with) |-> IF split = "val" THEN with[i][2].val ELSE with[i][2].test], 0)

\* [item[split] for item in evaluation.values()]
SplitColumn(ev, split) ==
    IF \E i \in 1..Len(ev) : ev[i][2].t # "run" \/ split \notin ev[i][2].has
    THEN Raise("KeyError")
    ELSE Ok([i \in 1..Len(ev) |-> IF split = "val" THEN ev[i][2].val ELSE ev[i][2].test], 0)

\* the summary step with its exceptions swallowed: the report goes on as it is
SummariseLenient(ev) ==
    [evaluation |-> ev, error |-> ""]

\* lines 133-141: the four summary values attached to the report
Summarise(ev) ==
    LET vc == SplitColumn(ev, "val")
        tc == SplitColumn(ev, "test")
    IN  IF vc.status = "raise" THEN [evaluation |-> ev, error |-> vc.err]
        ELSE IF Mean(vc.value).status = "raise"
             THEN [evaluation |-> ev, error |-> Mean(vc.value).err]
        ELSE IF tc.status = "raise" THEN [evaluation |-> ev, error |-> tc.err]
        ELSE IF Mean(tc.value).status = "raise"
             THEN [evaluation |-> ev, error |-> Mean(tc.value).err]
        ELSE [evaluation |->
                DictSet(DictSet(DictSet(DictSet(ev,
                    VAL_MEAN,  Scalar(Round4(Mean(vc.value).value))),
                    VAL_STD,   Scalar(Round4(Std(vc.value).value))),
                    TEST_MEAN, Scalar(Round4(Mean(tc.value).value))),
                    TEST_STD,  Scalar(Round4(Std(tc.value).value))),
              error |-> ""]

\* line 143: where the report of a metric goes
ReportPath(dir, metric) == Join(dir, metric \o DOT_JSON)

(***************************************************************************)
(* Inputs of evaluate_wrapper                                              *)
(***************************************************************************)
MaxMetrics == 2
MaxFiles   == 2

OURS         == <<"o","u","r","s">>
OURS_RESULTS == <<"o","u","r","s","/","r","e","s","u","l","t","s">>
ResultsPaths == { OURS, OURS_RESULTS }

WrapperMetrics == { GLOBAL_ACCURACY, BLEU, <<"F","1">>, NIHED, UNKNOWN_METRIC }

FileNames == { <<"a","2",".","j","s","o","n">>,
               <<"a","1","0",".","j","s","o","n">>,
               <<"a","2",".","j","s","o","n",".","b",".","j","s","o","n">> }

AllFields == {"prediction", "correct_answer", "prompt_text"}
Hit  == [has |-> AllFields, prediction |-> <<"a"," ","b">>,
         correct_answer |-> <<"a">>, prompt_text |-> <<"a","b">>]
Miss == [has |-> AllFields, prediction |-> <<"a","b","?">>,
         correct_answer |-> <<"B">>, prompt_text |-> <<"a","b">>]
NoPrompt == [has |-> {"prediction", "correct_answer"}, prediction |-> <<"a"," ","b">>,
             correct_answer |-> <<"a">>, prompt_text |-> <<>>]

ResultFile(has, val, test) == [kind |-> "results", has |-> has, val |-> val, test |-> test]
ReportFile(entries)        == [kind |-> "report", entries |-> entries]
NoData                     == [kind |-> "none"]

ResultFiles ==
    { ResultFile({"val", "test"}, <<Hit>>, <<Hit, Miss>>),   \* well formed
      ResultFile({"val", "test"}, <<Hit>>, <<Miss>>),        \* no match in test
      ResultFile({"val"}, <<Hit>>, <<>>),                    \* split missing
      ResultFile({"val", "test"}, <<NoPrompt>>, <<Hit>>) }   \* field missing

Directories(dir) ==
    UNION { [ { Join(dir, n) : n \in N } -> ResultFiles ] :
            N \in { X \in SUBSET FileNames : Cardinality(X) <= MaxFiles } }

NoFiles == [p \in {} |-> NoData]

EvalIdle == eSamples = <<>> /\ eCall = NoCall

Init ==
    /\ EvalIdle
    /\ results_path \in ResultsPaths
    /\ metrics \in SeqsUpTo(WrapperMetrics, MaxMetrics)
    /\ fs \in Directories(results_path)
    /\ invocation = 1
    /\ pc = "start"
    /\ paths = <<>> /\ save_path_dir = <<>> /\ mi = 0 /\ fi = 0
    /\ item = <<>> /\ data = NoData /\ evaluation = <<>>
    /\ error = ""
    /\ written = <<>>
    /\ firstRun = [paths |-> <<>>, files |-> NoFiles]

(***************************************************************************)
(* The steps of evaluate_wrapper                                           *)
(***************************************************************************)
\* lines 81-87: glob, sort, derive the output directory
Start ==
    /\ pc = "start"
    /\ paths' = SortedPaths(Glob(fs, results_path))
    /\ save_path_dir' = Replace(results_path, RESULTS, EVALUATION)
    /\ mi' = 1
    /\ pc' = "metric"
    /\ UNCHANGED <<evars, results_path, metrics, fs, invocation, fi, item, data,
                   evaluation, error, written, firstRun>>

\* the report created once, before the loop over metrics
BeginMetricKeep ==
    /\ pc = "metric"
    /\ mi <= Len(metrics)
    /\ fi' = 1
    /\ pc' = "file"
    /\ UNCHANGED <<evars, results_path, metrics, fs, invocation, paths, save_path_dir,
                   mi, item, data, evaluation, error, written, firstRun>>

\* lines 89-91: the next metric starts with a new, empty report
BeginMetric ==
    /\ pc = "metric"
    /\ mi <= Len(metrics)
    /\ evaluation' = <<>>
    /\ fi' = 1
    /\ pc' = "file"
    /\ UNCHANGED <<evars, results_path, metrics, fs, invocation, paths, save_path_dir,
                   mi, item, data, error, written, firstRun>>

\* lines 92-131: one file, both splits; an exception ends the invocation
ProcessFile ==
    /\ pc = "file"
    /\ fi <= Len(paths)
    /\ LET r == ScoreFile(evaluation, fs, paths[fi], metrics[mi])
       IN  /\ evaluation' = r.evaluation
           /\ error' = r.error
           /\ pc' = IF r.error = "" THEN "file" ELSE "error"
    /\ item' = ItemOf(paths[fi])
    /\ data' = read_json(fs, paths[fi])
    /\ fi' = fi + 1
    /\ UNCHANGED <<evars, results_path, metrics, fs, invocation, paths, save_path_dir,
                   mi, written, firstRun>>

\* lines 133-141: the summary values, after the last file
Aggregate ==
    /\ pc = "file"
    /\ fi > Len(paths)
    /\ LET r == Summarise(evaluation)
       IN  /\ evaluation' = r.evaluation
           /\ error' = r.error
           /\ pc' = IF r.error = "" THEN "write" ELSE "error"
    /\ UNCHANGED <<evars, results_path, metrics, fs, invocation, paths, save_path_dir,
                   mi, fi, item, data, written, firstRun>>

\* line 143: write_json, then on to the next metric
WriteReport ==
    /\ pc = "write"
    /\ fs' = write_json(fs, ReportFile(evaluation), ReportPath(save_path_dir, metrics[mi]))
    /\ written' = Append(written,
                         [invocation |-> invocation, mi |-> mi,
                          path |-> ReportPath(save_path_dir, metrics[mi]),
                          paths |-> paths, report |-> evaluation])
    /\ mi' = mi + 1
    /\ pc' = "metric"
    /\ UNCHANGED <<evars, results_path, metrics, invocation, paths, save_path_dir,
                   fi, item, data, evaluation, error, firstRun>>

\* the loop over metrics is exhausted: evaluate_wrapper returns
Finish ==
    /\ pc = "metric"
    /\ mi > Len(metrics)
    /\ pc' = "done"
    /\ UNCHANGED <<evars, results_path, metrics, fs, invocation, paths, save_path_dir,
                   mi, fi, item, data, evaluation, error, written, firstRun>>

\* evaluate_wrapper is run a second time with the same arguments
Rerun ==
    /\ pc = "done"
    /\ invocation = 1
    /\ invocation' = 2
    /\ firstRun' = [paths |-> paths, files |-> fs]
    /\ pc' = "start"
    /\ paths' = <<>> /\ save_path_dir' = <<>> /\ mi' = 0 /\ fi' = 0
    /\ item' = <<>> /\ data' = NoData /\ evaluation' = <<>>
    /\ UNCHANGED <<evars, results_path, metrics, fs, error, written>>

Next ==
    \/ Start
    \/ BeginMetric
    \/ ProcessFile
    \/ Aggregate
    \/ WriteReport
    \/ Finish
    \/ Rerun

Spec == Init /\ [][Next]_vars

(***************************************************************************)
(* Properties of the score functions (checked under SpecEval)              *)
(***************************************************************************)
IsEvaluateCall(metric) == eCall.fn = "evaluate" /\ Lower(eCall.metric) = metric

\* C5: on a non-empty list of pairs, evaluate with global_accuracy returns
\* T / (T + F), T the number of pairs whose answer is a substring of the
\* prediction and T + F the number of pairs: 1 when all match, 0 when none does.
C5_GlobalAccuracyIsFraction ==
    (IsEvaluateCall(GLOBAL_ACCURACY) /\ Len(eSamples) > 0) =>
        LET T == Cardinality({ i \in 1..Len(eSamples) :
                     IsSubstr(eSamples[i].correct_answer, eSamples[i].prediction) })
        IN  /\ eCall.result.status = "ok"
            /\ eCall.result.value.k = "num"
            /\ eCall.result.value.n * Len(eSamples) = T * eCall.result.value.d
            /\ (T = Len(eSamples) => eCall.result.value = One)
            /\ (T = 0 => eCall.result.value = Zero)

C5_Witness ==
    /\ IsEvaluateCall(GLOBAL_ACCURACY)
    /\ Len(eSamples) = 2
    /\ IsSubstr(eSamples[1].correct_answer, eSamples[1].prediction)
    /\ ~IsSubstr(eSamples[2].correct_answer, eSamples[2].prediction)
    /\ eCall.result.value = Num(1, 2)

\* C6: for a pred with at least one token, compute_our_bleu(answer, pred) is
\* nom / denom with 0 <= nom <= denom, nom the number of lower-cased tokens of
\* pred equal to the lower-cased answer and denom the number of tokens of pred.
C6_BleuInUnitInterval ==
    \A i \in 1..Len(eSamples) :
        (/\ eCall.fn = "compute_our_bleu" /\ eCall.i = i
         /\ Split(eSamples[i].prediction) # <<>>) =>
            LET toks == Split(eSamples[i].prediction)
                nom  == Cardinality({ j \in 1..Len(toks) :
                            Lower(toks[j]) = Lower(eSamples[i].correct_answer) })
            IN  /\ eCall.result.status = "ok"
                /\ eCall.result.value.k = "num"
                /\ 0 <= nom /\ nom <= Len(toks)
                /\ eCall.result.value.n * Len(toks) = nom * eCall.result.value.d
                /\ Leq(Zero, eCall.result.value) /\ Leq(eCall.result.value, One)

C6_Witness ==
    /\ eCall.fn = "compute_our_bleu"
    /\ Len(Split(eSamples[eCall.i].prediction)) = 2
    /\ eCall.result.value = Num(1, 2)

\* C8 as stated: for nihed on non-empty lists of equal length, evaluate returns
\* after exactly one loop iteration with the score of the first triple alone.
C8_ReturnsAfterFirstExample ==
    (IsEvaluateCall(NIHED) /\ Len(eSamples) > 0) =>
        /\ eCall.result.status = "ok"
        /\ eCall.result.iterations = 1

\* C8 amended: the same, provided the first prompt has at least two elements;
\* then the value is the score of the first triple and no change of a later
\* example changes the result.
C8_ReturnsAfterFirstExampleLongPrompt ==
    (/\ IsEvaluateCall(NIHED) /\ Len(eSamples) > 0
     /\ Len(eSamples[1].prompt_text) >= 2) =>
        /\ eCall.result.status = "ok"
        /\ eCall.result.iterations = 1
        /\ eCall.result.value =
              NihedExample(eSamples[1].correct_answer, eSamples[1].prediction,
                           eSamples[1].prompt_text).value
        /\ \A j \in 2..Len(eSamples) : \A other \in Samples :
              LET changed == [eSamples EXCEPT ![j] = other]
              IN  Evaluate(Predictions(changed), CorrectAnswers(changed),
                           NIHED, PromptText(changed)) = eCall.result

C8_Witness ==
    /\ IsEvaluateCall(NIHED)
    /\ Len(eSamples) = 2
    /\ Len(eSamples[1].prompt_text) >= 2
    /\ Len(eSamples[2].prompt_text) < 2
    /\ eCall.result.status = "ok"
    /\ eCall.result.iterations = 1

\* C9: for nihed, whenever every prompt has at least two elements, the score of
\* every example is 0 whichever additive or "where" branch fired, and evaluate
\* returns 0 for the non-empty split.
C9_NihedAlwaysZero ==
    (/\ IsEvaluateCall(NIHED) /\ Len(eSamples) > 0
     /\ \A i \in 1..Len(eSamples) : Len(eSamples[i].prompt_text) >= 2) =>
        /\ \A i \in 1..Len(eSamples) :
              NihedExample(eSamples[i].correct_answer, eSamples[i].prediction,
                           eSamples[i].prompt_text) = Ok(Zero, 0)
        /\ eCall.result.status = "ok"
        /\ eCall.result.value = Zero

\* the three additive branches fired (accumulated 0.99), no "?" in the prediction
C9_Witness ==
    /\ IsEvaluateCall(NIHED)
    /\ Len(eSamples) > 0
    /\ Len(eSamples[1].prompt_text) >= 2
    /\ NihedAccumulated(eSamples[1].correct_answer, eSamples[1].prediction,
                        eSamples[1].prompt_text) = Num(99, 100)
    /\ ~IsSubstr(QMARK, eSamples[1].prediction)
    /\ eCall.result.value = Zero

\* C10: for f1 on a non-empty split in which every prediction has a token,
\* evaluate returns a score in [0, 1] without an arithmetic error.
C10_F1NoArithmeticError ==
    (/\ IsEvaluateCall(F1) /\ Len(eSamples) > 0
     /\ \A i \in 1..Len(eSamples) : Split(eSamples[i].prediction) # <<>>) =>
        /\ eCall.result.status = "ok"
        /\ eCall.result.value.k = "num"
        /\ Leq(Zero, eCall.result.value) /\ Leq(eCall.result.value, One)

(***************************************************************************)
(* Properties of evaluate_wrapper (checked under Spec)                     *)
(***************************************************************************)
WellFormed(d) ==
    /\ d.kind = "results"
    /\ d.has = {"val", "test"}
    /\ \A i \in 1..Len(d.val)  : d.val[i].has = AllFields
    /\ \A i \in 1..Len(d.test) : d.test[i].has = AllFields

InMetricRun == mi \in 1..Len(metrics) /\ pc \in {"file", "write", "error"}

NoScoreAssigned == \A i \in 1..Len(evaluation) : evaluation[i][2].has = {}

WrittenFor(inv, j) ==
    { i \in 1..Len(written) : written[i].invocation = inv /\ written[i].mi = j }

\* C1 as stated: over at least one (well-formed) result file, the run of a
\* metric that is none of the five names assigns no score and does not raise.
C1_UnknownMetricDoesNotRaise ==
    (/\ InMetricRun /\ ~IsKnownMetric(metrics[mi])
     /\ paths # <<>> /\ \A i \in 1..Len(paths) : WellFormed(fs[paths[i]])) =>
        /\ NoScoreAssigned
        /\ pc # "error"

\* C1 amended: over at least one result file, the run of a metric that is none
\* of the five names assigns no score to any split of any run, and it ends in
\* an error: once every file is read the summary step raises KeyError, the
\* report is never written and the invocation never gets past that metric.
C1_UnknownMetricEndsInError ==
    (pc # "start" /\ paths # <<>>) =>
        \A j \in 1..Len(metrics) :
            ~IsKnownMetric(metrics[j]) =>
                /\ mi <= j
                /\ WrittenFor(invocation, j) = {}
                /\ (mi = j /\ pc # "metric") =>
                      /\ pc \in {"file", "error"}
                      /\ NoScoreAssigned
                      /\ (pc = "file" /\ fi > Len(paths)) =>
                            Summarise(evaluation).error = "KeyError"

C1_Witness ==
    /\ InMetricRun /\ ~IsKnownMetric(metrics[mi])
    /\ Len(paths) = 2 /\ fi > Len(paths)
    /\ \A i \in 1..Len(paths) : WellFormed(fs[paths[i]])
    /\ Len(evaluation) = 2 /\ NoScoreAssigned
    /\ pc = "error" /\ error = "KeyError"

HasSummary(report) ==
    \A key \in {VAL_MEAN, VAL_STD, TEST_MEAN, TEST_STD} :
        DictHas(report, key) /\ DictGet(report, key).t = "num"

AllScored(report, ps) ==
    \A i \in 1..Len(ps) :
        /\ DictHas(report, ItemOf(ps[i]))
        /\ DictGet(report, ItemOf(ps[i])).t = "run"
        /\ DictGet(report, ItemOf(ps[i])).has = {"val", "test"}

\* C2: {metric}.json is written only after every discovered file has been
\* loaded and scored for both splits and the four summary values have been
\* computed; when loading, scoring or aggregation fails, no output file is
\* written for that metric in that invocation.
C2_WriteOnlyAfterEverything ==
    /\ [](pc = "error" => WrittenFor(invocation, mi) = {})
    /\ [](\A i \in 1..Len(written) :
            AllScored(written[i].report, written[i].paths) /\ HasSummary(written[i].report))
    /\ [][ (written' # written \/ fs' # fs) =>
             /\ pc = "write" /\ error = "" /\ fi > Len(paths)
             /\ AllScored(evaluation, paths) /\ HasSummary(evaluation)
             /\ written' = Append(written,
                    [invocation |-> invocation, mi |-> mi,
                     path |-> ReportPath(save_path_dir, metrics[mi]),
                     paths |-> paths, report |-> evaluation])
             /\ fs'[ReportPath(save_path_dir, metrics[mi])] = ReportFile(evaluation) ]_vars

\* the second file fails in scoring after the first was processed: nothing on disk
C2_Witness ==
    /\ pc = "error" /\ error = "ZeroDivisionError"
    /\ invocation = 1 /\ mi = 1 /\ fi = 3
    /\ Len(evaluation) = 2
    /\ ReportPath(save_path_dir, metrics[mi]) \notin DOMAIN fs

\* C3: a second run on the same directory after a successful first run (here:
\* one that found at least one result file) processes the same input files,
\* succeeds again and leaves exactly the same files with the same contents.
C3_RerunIdempotent ==
    (invocation = 2 /\ pc # "start" /\ firstRun.paths # <<>>) =>
        /\ paths = firstRun.paths
        /\ pc # "error"
        /\ (pc = "done" => fs = firstRun.files)

\* C4: the run identifier of a file is its base name without the trailing
\* .json, so the report holds one RunResult per input file.
C4_RunIdIsStem ==
    /\ (pc = "file" /\ fi > 1) =>
          item \o DOT_JSON = Basename(paths[fi - 1])
    /\ (pc = "file" /\ fi > Len(paths)) => Len(evaluation) = Len(paths)

\* C7: the report of a metric is empty when the metric's run starts, holds
\* nothing but the runs of the files processed so far for that metric until
\* the summary is attached, is written exactly once per metric run, and what
\* was written is not modified afterwards.
C7_ReportFreshWrittenOnce ==
    /\ []((pc = "file" /\ fi = 1) => evaluation = <<>>)
    /\ [](pc \in {"file", "error"} =>
            \A i \in 1..Len(evaluation) :
                /\ evaluation[i][2].t = "run"
                /\ \E j \in 1..(fi - 1) : evaluation[i][1] = ItemOf(paths[j]))
    /\ [](\A j \in 1..Len(metrics) :
            /\ Cardinality(WrittenFor(invocation, j)) <= 1
            /\ (j < mi => Cardinality(WrittenFor(invocation, j)) = 1)
            /\ (j > mi => WrittenFor(invocation, j) = {}))
    /\ [](\A p \in DOMAIN fs :
            fs[p].kind = "report" =>
                \E i \in 1..Len(written) :
                    /\ written[i].path = p
                    /\ written[i].report = fs[p].entries
                    /\ \A k \in (i + 1)..Len(written) : written[k].path # p)
    /\ [][ \A i \in 1..Len(written) :
             Len(written') >= i /\ written'[i] = written[i] ]_vars

C7_Witness ==
    /\ invocation = 1 /\ pc = "file" /\ mi = 2 /\ fi = 1
    /\ Len(paths) = 2
    /\ Len(written) = 1 /\ Len(written[1].report) = 6
    /\ evaluation = <<>>

====
